---- MODULE Spec2Model ----
(***************************************************************************)
(* Per-cell model of MCD10A1.js (first script of the file, lines 1-287):   *)
(* the Terra/Aqua fusion (maxVal), the DOY encoding (returnDoy), the       *)
(* yearly min/max reduction, the two year stacks built by the main loop,   *)
(* and the snow free median / mask / trend composition after the loop.     *)
(*                                                                         *)
(* A raster is followed through one cell.  A cell of an image is a record  *)
(* [mask, val]: mask = 1 is a valid reading, mask = 0 is no data (val is   *)
(* then kept at 0 so that a masked cell has one representation).           *)
(* Time stamps are counted in whole days since January 1 of FirstYear;     *)
(* the year stacks are stamped with the bare year number, as in the code.  *)
(***************************************************************************)
EXTENDS Integers, Sequences, FiniteSets

VARIABLES
    t0, t1,            \* settings: first and last year to process
    catalog,           \* the two MODIS collections: [terra, aqua], sets of images
    datamask,          \* the cell of the Hansen 'datamask' band
    pc,                \* "main" (year loop), "done" (script finished), "fuse", "encode"
    i,                 \* loop variable of the year loop
    console,           \* what print() has written
    terraCollection, aquaCollection,
    joinedCollection, yearlyCollection,
    start, doyCollection, snowMeltAcc,
    snowMelt, snowAcc,
    snowFree, snowFreeMedian, snowFreeMask,
    linearFit, waterMask, mask, filteredFit, fitLayer,
    fuseIn, fuseOut,   \* one joined image and its fusion
    encIn, encStart, encOnce, encTwice   \* one fused image, encoded once and twice

vars == <<t0, t1, catalog, datamask, pc, i, console, terraCollection,
          aquaCollection, joinedCollection, yearlyCollection, start,
          doyCollection, snowMeltAcc, snowMelt, snowAcc, snowFree,
          snowFreeMedian, snowFreeMask, linearFit, waterMask, mask,
          filteredFit, fitLayer, fuseIn, fuseOut, encIn, encStart, encOnce,
          encTwice>>

pipelineVars == <<t0, t1, catalog, datamask, i, console, terraCollection,
          aquaCollection, joinedCollection, yearlyCollection, start,
          doyCollection, snowMeltAcc, snowMelt, snowAcc, snowFree,
          snowFreeMedian, snowFreeMask, linearFit, waterMask, mask,
          filteredFit, fitLayer>>

cellVars == <<fuseIn, fuseOut, encIn, encStart, encOnce, encTwice>>

----------------------------------------------------------------------------
(* Bounds and program constants *)

NYears == 2
MaxDoy == 8

FirstYear == 2003
ZeroCode == 0 - 10
Threshold == 5
NoEvent == 9999
NoDoy == 366
SeasonCeiling == 306
MaxCover == 100
ChartYear == 2003

----------------------------------------------------------------------------
(* Cells *)

NA == [mask |-> 0, val |-> 0]
Px(v) == [mask |-> 1, val |-> v]

\* image.unmask(v)
unmask(p, v) == IF p.mask = 0 THEN Px(v) ELSE p

\* image.updateMask(m): valid where the image is valid and m is valid and non-zero
updateMask(p, m) == IF p.mask = 1 /\ m.mask = 1 /\ m.val # 0 THEN p ELSE NA

\* cell-wise binary operations: masked when either operand is masked
imgMax(p, q) ==
    IF p.mask = 1 /\ q.mask = 1
    THEN Px(IF p.val >= q.val THEN p.val ELSE q.val) ELSE NA

subtract(p, q) == IF p.mask = 1 /\ q.mask = 1 THEN Px(p.val - q.val) ELSE NA

multiply(p, q) == IF p.mask = 1 /\ q.mask = 1 THEN Px(p.val * q.val) ELSE NA

neq(p, c) == IF p.mask = 1 THEN Px(IF p.val # c THEN 1 ELSE 0) ELSE NA

eq(p, c) == IF p.mask = 1 THEN Px(IF p.val = c THEN 1 ELSE 0) ELSE NA

\* expression 'b1 == from ? to : b1'
recode(p, from, to) ==
    IF p.mask = 1 THEN Px(IF p.val = from THEN to ELSE p.val) ELSE NA

----------------------------------------------------------------------------
(* Functions of the script *)

\* the image joined by concatBands: bands NDSI_Snow_Cover (primary, Terra)
\* and NDSI_Snow_Cover_1 (secondary, Aqua), time stamp of the primary
concatBands(feature) ==
    [time |-> feature.primary.time,
     b1 |-> feature.primary.px, b2 |-> feature.secondary.px]

\* maxValCell without the recoding of 0 (cells unmasked to 0, maximum, remask)
maxValCellNoZeroCode(b1, b2) ==
    LET maxval == imgMax(unmask(b1, 0), unmask(b2, 0))
    IN  updateMask(maxval, neq(maxval, 0))

\* maxValCell without the updateMask after the maximum
maxValCellNoRemask(b1, b2) ==
    LET b1c == recode(b1, 0, ZeroCode)
        b2c == recode(b2, 0, ZeroCode)
        maxval == imgMax(unmask(b1c, 0), unmask(b2c, 0))
    IN  recode(maxval, ZeroCode, 0)

\* lines 45-67 for one cell
maxValCell(b1, b2) ==
    LET b1c == recode(b1, 0, ZeroCode)
        b2c == recode(b2, 0, ZeroCode)
        maxval == imgMax(unmask(b1c, 0), unmask(b2c, 0))
        remasked == updateMask(maxval, neq(maxval, 0))
    IN  recode(remasked, ZeroCode, 0)

maxVal(img) == [time |-> img.time, px |-> maxValCell(img.b1, img.b2)]

\* ee.Date(a).difference(b, 'day') on whole-day time stamps
dateDifference(a, b) == a - b

\* doyExpression with SNOW < 5
doyExpressionStrict(snow, doy) ==
    IF snow.mask = 1 THEN Px(IF snow.val < Threshold THEN doy ELSE NoEvent) ELSE NA

\* expression 'SNOW <= 5 ? DOY : 9999'
doyExpression(snow, doy) ==
    IF snow.mask = 1 THEN Px(IF snow.val <= Threshold THEN doy ELSE NoEvent) ELSE NA

\* returnDoy without the .add(1)
returnDoyZeroBased(image, startDate) ==
    LET doy == dateDifference(image.time, startDate)
        replacement == doyExpression(image.px, doy)
        withObs == neq(replacement, NoEvent)
    IN  [time |-> image.time, px |-> updateMask(replacement, withObs)]

\* returnDoy reads the script variable start
returnDoy(image, startDate) ==
    LET doy == dateDifference(image.time, startDate) + 1
        replacement == doyExpression(image.px, doy)
        withObs == neq(replacement, NoEvent)
    IN  [time |-> image.time, px |-> updateMask(replacement, withObs)]

\* b2.subtract(b1) with the time stamp of the snowmelt band
difference(img) == [time |-> img.time, px |-> subtract(img.b2, img.b1)]

\* the image with the band 'system:time_start' added
createTimeBand(image) == [time |-> image.time, px |-> image.px, t |-> Px(image.time)]

----------------------------------------------------------------------------
(* Calendar *)

IsLeap(y) == (y % 4 = 0 /\ y % 100 # 0) \/ y % 400 = 0

DaysInYear(y) == IF IsLeap(y) THEN 366 ELSE 365

RECURSIVE Jan1(_)
Jan1(y) == IF y <= FirstYear THEN 0 ELSE Jan1(y - 1) + DaysInYear(y - 1)

Dec31(y) == Jan1(y) + DaysInYear(y) - 1

----------------------------------------------------------------------------
(* Collections: sequences of images *)

Range(s) == {s[k] : k \in DOMAIN s}

\* filterDate with the end date included
filterDateClosed(S, from, to) == {im \in S : from <= im.time /\ im.time <= to}

\* .filterDate(from, to): from inclusive, to exclusive
filterDate(S, from, to) == {im \in S : from <= im.time /\ im.time < to}

\* .sort('system:time_start', true)
RECURSIVE sortByTime(_)
sortByTime(S) ==
    IF S = {} THEN <<>>
    ELSE LET first == CHOOSE im \in S : \A o \in S : im.time <= o.time
         IN  <<first>> \o sortByTime(S \ {first})

\* filterTimeEq
filterTimeEq(a, b) == a.time = b.time

\* ee.Join.inner().apply(left, right, filterTimeEq)
RECURSIVE innerJoin(_, _)
innerJoin(left, right) ==
    IF left = <<>> THEN <<>>
    ELSE LET l == Head(left)
             hits == SelectSeq(right, LAMBDA r : filterTimeEq(l, r))
         IN  [k \in 1..Len(hits) |-> [primary |-> l, secondary |-> hits[k]]]
             \o innerJoin(Tail(left), right)

\* merge with the new images put first
mergeFront(a, b) == b \o a

\* collection.merge(other)
merge(a, b) == a \o b

\* ee.Reducer.minMax() over the valid cells of a collection; a collection
\* without images reduces to an image without bands
IntMin(S) == CHOOSE m \in S : \A o \in S : m <= o
IntMax(S) == CHOOSE m \in S : \A o \in S : m >= o

reduceMinMax(coll) ==
    LET valid == {coll[k].px.val : k \in {j \in DOMAIN coll : coll[j].px.mask = 1}}
    IN  IF coll = <<>> THEN [bands |-> 0, min |-> NA, max |-> NA]
        ELSE IF valid = {} THEN [bands |-> 2, min |-> NA, max |-> NA]
        ELSE [bands |-> 2, min |-> Px(IntMin(valid)), max |-> Px(IntMax(valid))]

\* unmask applied to the minimum band only
unmaskMinOnly(img, v) ==
    [bands |-> img.bands, min |-> unmask(img.min, v), max |-> img.max]

unmaskMinMax(img, v) ==
    [bands |-> img.bands, min |-> unmask(img.min, v), max |-> unmask(img.max, v)]

\* .select([band],[name]).set('system:time_start', i); selecting a band the
\* image does not have is an error value
selectMin(img, year) ==
    IF img.bands = 0 THEN [time |-> year, px |-> NA, err |-> TRUE]
    ELSE [time |-> year, px |-> img.min, err |-> FALSE]

selectMax(img, year) ==
    IF img.bands = 0 THEN [time |-> year, px |-> NA, err |-> TRUE]
    ELSE [time |-> year, px |-> img.max, err |-> FALSE]

----------------------------------------------------------------------------
(* After the loop: join of the stacks, median, regression, masks *)

ErrorValue == [error |-> TRUE]

RECURSIVE sortInts(_)
sortInts(s) ==
    IF s = <<>> THEN <<>>
    ELSE LET k == CHOOSE a \in DOMAIN s : \A b \in DOMAIN s : s[a] <= s[b]
         IN  <<s[k]>> \o sortInts([j \in 1..(Len(s) - 1) |-> IF j < k THEN s[j] ELSE s[j + 1]])

\* ee.ImageCollection.median() for one cell over the valid cells, as the
\* fraction num/den: the middle value, or the mean of the two middle values
median(coll) ==
    LET valid == SelectSeq(coll, LAMBDA im : im.px.mask = 1)
        sorted == sortInts([k \in DOMAIN valid |-> valid[k].px.val])
        n == Len(sorted)
    IN  IF n = 0 THEN [mask |-> 0, num |-> 0, den |-> 1]
        ELSE IF n % 2 = 1 THEN [mask |-> 1, num |-> sorted[(n + 1) \div 2], den |-> 1]
        ELSE [mask |-> 1, num |-> sorted[n \div 2] + sorted[n \div 2 + 1], den |-> 2]

\* lt as less-than-or-equal
lte(q, c) == IF q.mask = 1 THEN Px(IF q.num <= c * q.den THEN 1 ELSE 0) ELSE NA

\* image.lt(c) on a fraction
lt(q, c) == IF q.mask = 1 THEN Px(IF q.num < c * q.den THEN 1 ELSE 0) ELSE NA

RECURSIVE Sum(_)
Sum(s) == IF s = <<>> THEN 0 ELSE Head(s) + Sum(Tail(s))

\* ee.Reducer.linearFit(): least squares of snowmelt on system:time_start,
\* bands scale and offset as fractions
reduceLinearFit(coll) ==
    LET n == Len(coll)
        Sx == Sum([k \in DOMAIN coll |-> coll[k].t.val])
        Sy == Sum([k \in DOMAIN coll |-> coll[k].px.val])
        Sxy == Sum([k \in DOMAIN coll |-> coll[k].t.val * coll[k].px.val])
        Sxx == Sum([k \in DOMAIN coll |-> coll[k].t.val * coll[k].t.val])
        D == n * Sxx - Sx * Sx
        N == n * Sxy - Sx * Sy
    IN  [scale |-> [mask |-> 1, num |-> N, den |-> D],
         offset |-> [mask |-> 1, num |-> Sy * D - N * Sx, den |-> n * D]]

\* ee.Image(linearFit).multiply(mask), band by band
multiplyFit(fit, m) ==
    LET band(b) == IF b.mask = 1 /\ m.mask = 1
                   THEN [mask |-> 1, num |-> b.num * m.val, den |-> b.den]
                   ELSE [mask |-> 0, num |-> 0, den |-> 1]
    IN  [scale |-> band(fit.scale), offset |-> band(fit.offset)]

\* linearFit.mask(mask): valid where mask is valid and non-zero
maskFit(fit, m) ==
    LET band(b) == IF b.mask = 1 /\ m.mask = 1 /\ m.val # 0
                   THEN b ELSE [mask |-> 0, num |-> 0, den |-> 1]
    IN  [scale |-> band(fit.scale), offset |-> band(fit.offset)]

----------------------------------------------------------------------------
(* The script *)

\* one iteration of the year loop, lines 145-235
LoopIter ==
    /\ pc = "main"
    /\ i <= t1
    /\ LET terra == sortByTime(filterDate(catalog.terra, Jan1(i), Dec31(i)))
           aqua == sortByTime(filterDate(catalog.aqua, Jan1(i), Dec31(i)))
           innerJoined == innerJoin(terra, aqua)
           joined == [k \in DOMAIN innerJoined |-> concatBands(innerJoined[k])]
           yearly == [k \in DOMAIN joined |-> maxVal(joined[k])]
           first == IF yearly = <<>> THEN ErrorValue ELSE yearly[1].time
           doys == [k \in DOMAIN yearly |-> returnDoy(yearly[k], first)]
           meltAcc == unmaskMinMax(reduceMinMax(doys), NoDoy)
       IN  /\ terraCollection' = terra
           /\ aquaCollection' = aqua
           /\ joinedCollection' = joined
           /\ yearlyCollection' = yearly
           /\ console' = IF i = ChartYear
                         THEN Append(console, [kind |-> "chart", year |-> i])
                         ELSE console
           /\ start' = first
           /\ doyCollection' = doys
           /\ snowMeltAcc' = meltAcc
           /\ IF i = t0
              THEN /\ snowMelt' = <<selectMin(meltAcc, i)>>
                   /\ snowAcc' = <<selectMax(meltAcc, i)>>
              ELSE /\ snowMelt' = merge(snowMelt, <<selectMin(meltAcc, i)>>)
                   /\ snowAcc' = merge(snowAcc, <<selectMax(meltAcc, i)>>)
    /\ i' = i + 1
    /\ UNCHANGED <<t0, t1, catalog, datamask, pc, snowFree, snowFreeMedian,
                   snowFreeMask, linearFit, waterMask, mask, filteredFit, fitLayer>>
    /\ UNCHANGED cellVars

\* the rest of the script, lines 246-287
PostLoop ==
    /\ pc = "main"
    /\ i > t1
    /\ LET failed == \E k \in DOMAIN snowMelt : snowMelt[k].err \/ snowAcc[k].err
           innerJoined == innerJoin(snowMelt, snowAcc)
           joined == [k \in DOMAIN innerJoined |-> concatBands(innerJoined[k])]
           free == [k \in DOMAIN joined |-> difference(joined[k])]
           freeMedian == median(free)
           freeMask == lt(freeMedian, SeasonCeiling)
           fit == reduceLinearFit([k \in DOMAIN snowMelt |-> createTimeBand(snowMelt[k])])
           water == eq(datamask, 1)
           final == multiply(water, freeMask)
       IN  IF failed
           THEN /\ joinedCollection' = ErrorValue
                /\ snowFree' = ErrorValue
                /\ snowFreeMedian' = ErrorValue
                /\ snowFreeMask' = ErrorValue
                /\ linearFit' = ErrorValue
                /\ waterMask' = water
                /\ mask' = ErrorValue
                /\ filteredFit' = ErrorValue
                /\ fitLayer' = ErrorValue
           ELSE /\ joinedCollection' = joined
                /\ snowFree' = free
                /\ snowFreeMedian' = freeMedian
                /\ snowFreeMask' = freeMask
                /\ linearFit' = fit
                /\ waterMask' = water
                /\ mask' = final
                /\ filteredFit' = multiplyFit(fit, final)
                /\ fitLayer' = maskFit(fit, final)
    /\ pc' = "done"
    /\ UNCHANGED <<t0, t1, catalog, datamask, i, console, terraCollection,
                   aquaCollection, yearlyCollection, start, doyCollection,
                   snowMeltAcc, snowMelt, snowAcc>>
    /\ UNCHANGED cellVars

Next == LoopIter \/ PostLoop

----------------------------------------------------------------------------
(* Inputs *)

\* the image sets with an image on some of the days, readings from vals
SeriesOver(days, vals) ==
    UNION {{{[time |-> d, px |-> f[d]] : d \in D} : f \in [D -> vals]} : D \in SUBSET days}

\* the image sets with an image on every one of the days
FullSeries(days, vals) ==
    {{[time |-> d, px |-> f[d]] : d \in days} : f \in [days -> vals]}

\* first two and last two days of year y (the last one is December 31)
EdgeDays(y) == {Jan1(y), Jan1(y) + 1, Dec31(y) - 1, Dec31(y)}

\* first two days of year y and the day SeasonCeiling days after January 1
SeasonDays(y) == {Jan1(y), Jan1(y) + 1, Jan1(y) + SeasonCeiling}

Readings == {NA, Px(Threshold), Px(Threshold + 1)}

Years == FirstYear..(FirstYear + NYears - 1)

\* per year: Terra and Aqua images of that year, as <<terra, aqua>>
\* Terra observes the cell on every day or on none, Aqua never does
SteadyTerra(y) ==
    FullSeries(SeasonDays(y), Readings \ {NA}) \cup FullSeries(SeasonDays(y), {NA})

SteadyYear(y) == SteadyTerra(y) \X FullSeries(SeasonDays(y), {NA})

\* as SteadyYear, and Aqua may have no image at all, or none on a day of Terra's
GappyYear(y) ==
    SteadyTerra(y)
        \X (FullSeries(SeasonDays(y), {NA}) \cup {{}, {[time |-> Jan1(y) + 2, px |-> NA]}})

\* one year: Terra and Aqua each have an image on some of the edge days; Aqua
\* reads no data throughout or snow throughout; some day is in both
EdgeYear(y) ==
    {ya \in SeriesOver(EdgeDays(y), Readings)
             \X (SeriesOver(EdgeDays(y), {NA}) \cup SeriesOver(EdgeDays(y), {Px(Threshold + 1)})) :
        \E a \in ya[1], b \in ya[2] : a.time = b.time /\ a.time < Dec31(y)}

RECURSIVE Catalogs(_, _)
Catalogs(years, gappy) ==
    IF years = {} THEN {[terra |-> {}, aqua |-> {}]}
    ELSE LET y == CHOOSE a \in years : \A b \in years : a >= b
         IN  {[terra |-> c.terra \cup ya[1], aqua |-> c.aqua \cup ya[2]] :
                  c \in Catalogs(years \ {y}, gappy),
                  ya \in IF gappy THEN GappyYear(y) ELSE SteadyYear(y)}

Idle == [idle |-> TRUE]

InitScript ==
    /\ pc = "main"
    /\ i = t0
    /\ console = <<>>
    /\ terraCollection = Idle /\ aquaCollection = Idle
    /\ joinedCollection = Idle /\ yearlyCollection = Idle
    /\ start = Idle /\ doyCollection = Idle /\ snowMeltAcc = Idle
    /\ snowMelt = <<>> /\ snowAcc = <<>>
    /\ snowFree = Idle /\ snowFreeMedian = Idle /\ snowFreeMask = Idle
    /\ linearFit = Idle /\ waterMask = Idle /\ mask = Idle
    /\ filteredFit = Idle /\ fitLayer = Idle
    /\ fuseIn = Idle /\ fuseOut = Idle
    /\ encIn = Idle /\ encStart = Idle /\ encOnce = Idle /\ encTwice = Idle

\* several years, both sensors present every day the catalog covers
Init ==
    /\ t0 = FirstYear
    /\ t1 = FirstYear + NYears - 1
    /\ catalog \in Catalogs(Years, FALSE)
    /\ datamask \in {Px(0), Px(1), Px(2)}
    /\ InitScript

Spec == Init /\ [][Next]_vars

\* one year, images on some of its first and last days
InitYear ==
    /\ t0 \in Years
    /\ t1 = t0
    /\ \E ya \in EdgeYear(t0) : catalog = [terra |-> ya[1], aqua |-> ya[2]]
    /\ datamask = Px(1)
    /\ InitScript

SpecYear == InitYear /\ [][Next]_vars

\* several years, some of which may have no day with both sensors
InitEmptyYear ==
    /\ t0 = FirstYear
    /\ t1 = FirstYear + NYears - 1
    /\ catalog \in Catalogs(Years, TRUE)
    /\ datamask = Px(1)
    /\ InitScript

SpecEmptyYear == InitEmptyYear /\ [][Next]_vars

----------------------------------------------------------------------------
(* maxVal and returnDoy on single images *)

CoverCells == {NA} \cup {Px(v) : v \in 0..MaxCover}

InitIdle ==
    /\ t0 = FirstYear /\ t1 = FirstYear /\ i = FirstYear
    /\ catalog = [terra |-> {}, aqua |-> {}]
    /\ datamask = Px(1)
    /\ console = <<>>
    /\ terraCollection = Idle /\ aquaCollection = Idle
    /\ joinedCollection = Idle /\ yearlyCollection = Idle
    /\ start = Idle /\ doyCollection = Idle /\ snowMeltAcc = Idle
    /\ snowMelt = <<>> /\ snowAcc = <<>>
    /\ snowFree = Idle /\ snowFreeMedian = Idle /\ snowFreeMask = Idle
    /\ linearFit = Idle /\ waterMask = Idle /\ mask = Idle
    /\ filteredFit = Idle /\ fitLayer = Idle

InitFuse ==
    /\ InitIdle
    /\ pc = "fuse"
    /\ fuseIn \in {[time |-> 0, b1 |-> a, b2 |-> b] : a \in CoverCells, b \in CoverCells}
    /\ fuseOut = Idle
    /\ encIn = Idle /\ encStart = Idle /\ encOnce = Idle /\ encTwice = Idle

\* joinedCollection.map(maxVal) on one image
Fuse ==
    /\ pc = "fuse"
    /\ fuseOut = Idle
    /\ fuseOut' = maxVal(fuseIn)
    /\ UNCHANGED <<pc, fuseIn, encIn, encStart, encOnce, encTwice>>
    /\ UNCHANGED pipelineVars

NextFuse == Fuse

SpecFuse == InitFuse /\ [][NextFuse]_vars

InitEncode ==
    /\ InitIdle
    /\ pc = "encode"
    /\ encStart = 0
    /\ encIn \in {[time |-> d - 1, px |-> c] : d \in 1..MaxDoy, c \in CoverCells}
    /\ encOnce = Idle /\ encTwice = Idle
    /\ fuseIn = Idle /\ fuseOut = Idle

\* yearlyCollection.map(returnDoy) on one image
Encode ==
    /\ pc = "encode"
    /\ encOnce = Idle
    /\ encOnce' = returnDoy(encIn, encStart)
    /\ UNCHANGED <<pc, fuseIn, fuseOut, encIn, encStart, encTwice>>
    /\ UNCHANGED pipelineVars

\* returnDoy mapped over what returnDoy produced
ReEncode ==
    /\ pc = "encode"
    /\ encOnce # Idle
    /\ encTwice = Idle
    /\ encTwice' = returnDoy(encOnce, encStart)
    /\ UNCHANGED <<pc, fuseIn, fuseOut, encIn, encStart, encOnce>>
    /\ UNCHANGED pipelineVars

NextEncode == Encode \/ ReEncode

SpecEncode == InitEncode /\ [][NextEncode]_vars

----------------------------------------------------------------------------
(* Stream fuser: maxVal *)

Fused == pc = "fuse" /\ fuseOut # Idle

Larger(a, b) == IF a >= b THEN a ELSE b

\* C1: when exactly one sensor has a valid reading and the other is masked,
\* the fused cell is valid and equals that reading (a valid 0 included).
C1_OneValidReadingKept ==
    Fused =>
        /\ (fuseIn.b1.mask = 1 /\ fuseIn.b2.mask = 0 => fuseOut.px = fuseIn.b1)
        /\ (fuseIn.b1.mask = 0 /\ fuseIn.b2.mask = 1 => fuseOut.px = fuseIn.b2)

\* C2: when both sensors are valid the fused cell is valid and is the larger
\* reading; when both are masked the fused cell is masked.
C2_BothValidOrBothMasked ==
    Fused =>
        /\ (fuseIn.b1.mask = 1 /\ fuseIn.b2.mask = 1
               => fuseOut.px = Px(Larger(fuseIn.b1.val, fuseIn.b2.val)))
        /\ (fuseIn.b1.mask = 0 /\ fuseIn.b2.mask = 0 => fuseOut.px.mask = 0)
        /\ fuseOut.time = fuseIn.time

C2_Witness ==
    /\ Fused
    /\ fuseIn.b1 = Px(0) /\ fuseIn.b2 = Px(0)
    /\ fuseOut.px = Px(0)

----------------------------------------------------------------------------
(* Event encoder: returnDoy applied twice *)

EncodedTwice == pc = "encode" /\ encTwice # Idle

----------------------------------------------------------------------------
(* Event encoder and year reducer within the year loop *)

\* the loop has processed a year and the script variables still hold it
YearProcessed == pc \in {"main", "done"} /\ i > t0

LastYear == i - 1

\* the days of the last processed year's fused series on which the cell is
\* valid with a cover of at most 5, as DOYs counted from the earliest fused day
FusedTimes == {yearlyCollection[k].time : k \in DOMAIN yearlyCollection}

FirstFusedDay == CHOOSE d \in FusedTimes : \A o \in FusedTimes : d <= o

QualifyingDoys ==
    {yearlyCollection[k].time - FirstFusedDay + 1 :
        k \in {j \in DOMAIN yearlyCollection :
                  /\ yearlyCollection[j].px.mask = 1
                  /\ yearlyCollection[j].px.val <= 5}}

Melt(k) == snowMelt[k].px
Acc(k) == snowAcc[k].px

\* C3: for every processed year, melt and acc are both genuine DOYs with
\* melt <= acc, or both are 366; never exactly one of them is 366.
C3_MeltAccOrdered ==
    YearProcessed =>
        \A k \in DOMAIN snowMelt :
            /\ k \in DOMAIN snowAcc
            /\ Melt(k).mask = 1 /\ Acc(k).mask = 1
            /\ \/ Melt(k).val = 366 /\ Acc(k).val = 366
               \/ Melt(k).val # 366 /\ Acc(k).val # 366 /\ Melt(k).val <= Acc(k).val

C3_Witness ==
    /\ YearProcessed
    /\ Melt(1) = Px(2)
    /\ Acc(1) = Px(365)

C10_DoyBelowSentinel ==
    YearProcessed =>
        /\ \A k \in DOMAIN doyCollection :
               doyCollection[k].px.mask = 1 => doyCollection[k].px.val \in 1..365
        /\ LET k == Len(snowMelt)
           IN  (Melt(k).val = 366 \/ Acc(k).val = 366) => QualifyingDoys = {}
        /\ pc = "done" =>
               \A k \in DOMAIN snowFree :
                   snowFree[k].px.mask = 1 /\ snowFree[k].px.val \in 0..364

\* leap year: December 30 is day 365 and qualifies
C10_Witness ==
    /\ pc = "done"
    /\ IsLeap(t0)
    /\ \E k \in DOMAIN doyCollection : doyCollection[k].px = Px(365)
    /\ Acc(1) = Px(365)
    /\ snowFree[1].px = Px(364)

----------------------------------------------------------------------------
(* Multi-year aggregator *)

IsPrefix(s, t) == Len(s) <= Len(t) /\ \A k \in DOMAIN s : t[k] = s[k]

StacksAligned ==
    /\ Len(snowMelt) = i - t0
    /\ Len(snowAcc) = i - t0
    /\ \A k \in DOMAIN snowMelt :
           snowMelt[k].time = t0 + k - 1 /\ snowAcc[k].time = t0 + k - 1
    /\ pc = "done" => Len(snowMelt) = t1 - t0 + 1 /\ Len(snowAcc) = t1 - t0 + 1

----------------------------------------------------------------------------
(* Derived metrics and masks *)

\* the cell has no data in any image of either sensor
NeverObserved ==
    /\ catalog.terra # {} /\ catalog.aqua # {}
    /\ \A im \in catalog.terra \cup catalog.aqua : im.px.mask = 0

\* C7: a cell without data in both sensors on every day of every year has an
\* all-masked fused series, melt = acc = 366 and snowFree = 0 in every year, a
\* median snowFree of 0, and snowFreeMask true.
C7_NeverObservedCellKept ==
    NeverObserved =>
        /\ YearProcessed =>
               /\ yearlyCollection # <<>>
               /\ \A k \in DOMAIN yearlyCollection : yearlyCollection[k].px.mask = 0
               /\ \A k \in DOMAIN snowMelt : Melt(k) = Px(366) /\ Acc(k) = Px(366)
        /\ pc = "done" =>
               /\ Len(snowFree) = t1 - t0 + 1
               /\ \A k \in DOMAIN snowFree : snowFree[k].px = Px(0)
               /\ snowFreeMedian.mask = 1 /\ snowFreeMedian.num = 0
               /\ snowFreeMask = Px(1)

C7_Witness ==
    /\ NeverObserved
    /\ pc = "done"
    /\ Len(snowFree) >= 2
    /\ snowFreeMask = Px(1)

\* the yearly season lengths read off the stacks, year by year
SeasonLengths == [k \in DOMAIN snowMelt |-> Acc(k).val - Melt(k).val]

AtMost(s, v) == Cardinality({k \in DOMAIN s : s[k] <= v})
AtLeast(s, v) == Cardinality({k \in DOMAIN s : s[k] >= v})

\* v is a lower (upper) median of s: at least half (rounded up) of the
\* values are at most v, and at least half (rounded down, plus one) are at least v
IsLowerMedian(s, v) ==
    /\ \E k \in DOMAIN s : s[k] = v
    /\ AtMost(s, v) >= (Len(s) + 1) \div 2
    /\ AtLeast(s, v) >= Len(s) \div 2 + 1

IsUpperMedian(s, v) ==
    /\ \E k \in DOMAIN s : s[k] = v
    /\ AtMost(s, v) >= Len(s) \div 2 + 1
    /\ AtLeast(s, v) >= (Len(s) + 1) \div 2

\* the median (the mean of the lower and the upper median) is below 306
MedianBelow306(s) ==
    \E lo \in Range(s), hi \in Range(s) :
        IsLowerMedian(s, lo) /\ IsUpperMedian(s, hi) /\ lo + hi < 2 * 306

Unmasked(band) == band.mask = 1

\* C9: the final mask is 1 exactly when the land/water cell is 1 and the
\* median season length is strictly below 306; the trend is unchanged where
\* the mask is 1 and zeroed (filteredFit) or masked (the map layer) elsewhere.
C9_FinalMask ==
    pc = "done" =>
        /\ mask \in {Px(0), Px(1)}
        /\ mask = Px(1) <=> (datamask = Px(1) /\ MedianBelow306(SeasonLengths))
        /\ mask = Px(1) => filteredFit = linearFit /\ fitLayer = linearFit
        /\ mask = Px(0) =>
               /\ Unmasked(filteredFit.scale) /\ filteredFit.scale.num = 0
               /\ Unmasked(filteredFit.offset) /\ filteredFit.offset.num = 0
               /\ ~Unmasked(fitLayer.scale) /\ ~Unmasked(fitLayer.offset)

\* land cell whose median season length is exactly 306: excluded
C9_Witness ==
    /\ pc = "done"
    /\ datamask = Px(1)
    /\ \A k \in DOMAIN snowFree : snowFree[k].px = Px(306)
    /\ mask = Px(0)
    /\ linearFit.offset.num # 0
    /\ filteredFit.offset.num = 0

----------------------------------------------------------------------------
(* A year without fused days *)

EmptyYearReported(y) ==
    \E k \in DOMAIN console : console[k].kind = "EmptyYear" /\ console[k].year = y

Skipped(y) ==
    /\ \A k \in DOMAIN snowMelt : snowMelt[k].time # y
    /\ \A k \in DOMAIN snowAcc : snowAcc[k].time # y

AllSentinel(y) ==
    /\ \E k \in DOMAIN snowMelt : snowMelt[k].time = y
    /\ \E k \in DOMAIN snowAcc : snowAcc[k].time = y
    /\ \A k \in DOMAIN snowMelt :
           snowMelt[k].time = y => ~snowMelt[k].err /\ snowMelt[k].px = Px(366)
    /\ \A k \in DOMAIN snowAcc :
           snowAcc[k].time = y => ~snowAcc[k].err /\ snowAcc[k].px = Px(366)

\* C8: a year whose fused series has no day is reported, and is either
\* skipped or recorded as 366 in both stacks.
C8_EmptyYearHandled ==
    (pc = "main" /\ i > t0 /\ yearlyCollection = <<>>) =>
        /\ EmptyYearReported(LastYear)
        /\ Skipped(LastYear) \/ AllSentinel(LastYear)

====
